---- MODULE Spec2Model ----
(***************************************************************************)
(* The interview-coach action layer (src/src/actions/index.ts): eight      *)
(* request handlers over three tables.  A handler is a sequence of awaited *)
(* database statements; one step of the model is one statement together   *)
(* with the synchronous code that follows it up to the next await.         *)
(*                                                                         *)
(* The tables are persistent and have writers other than the handlers      *)
(* (seeding), so the initial state ranges over a few contents that satisfy *)
(* the schema's keys and references.  Two settings of the database are not *)
(* fixed by the source: whether foreign keys are enforced, and whether a   *)
(* primary-key column accepts NULL (SQLite accepts it for a TEXT PRIMARY   *)
(* KEY that is not declared NOT NULL).  Each is fixed for a whole          *)
(* behaviour; it is "unknown" until the first statement whose result       *)
(* depends on it.                                                          *)
(*                                                                         *)
(* An optional value is a sequence of length at most one: <<>> is          *)
(* undefined / NULL, <<v>> is v.                                           *)
(***************************************************************************)
EXTENDS Integers, Sequences, FiniteSets, TLC

VARIABLES
    sessions,    \* table InterviewSessions, in storage order
    questions,   \* table InterviewQuestions
    responses,   \* table InterviewResponses
    clock,       \* the latest time new Date() has returned
    nUuid,       \* how many times crypto.randomUUID() has been called
    fkEnforced,  \* "on": the database rejects statements that break a reference
    pkNotNull,   \* "on": the database rejects a NULL primary key
    calls,       \* per request slot: the running (or last finished) handler
    budget,      \* handler invocations left
    createdBy,   \* history: <<session id, user>> created and not deleted since
    writtenBy    \* history: per row of responses, the user who last wrote it

vars == <<sessions, questions, responses, clock, nUuid, fkEnforced, pkNotNull,
          calls, budget, createdBy, writtenBy>>

db == <<sessions, questions, responses>>

-----------------------------------------------------------------------------
(* Bounds *)

MaxCalls == 2       \* handler invocations of a behaviour of Spec
MaxLongCalls == 3   \* ... of SpecLong
MaxConcCalls == 2   \* ... of SpecConc
MaxInFlight == 2    \* requests in flight together in SpecConc
MaxTime == 1        \* the clock runs from 0 to MaxTime
MaxUuids == 1       \* calls of crypto.randomUUID()

-----------------------------------------------------------------------------
(* Values *)

None == <<>>
Some(v) == <<v>>

Users == {"A", "B"}
NoUser == "anonymous"
Callers == Users \cup {NoUser}

SessionIds == {"s1", "s2"}
QuestionIds == {"q1", "q2"}
ResponseIds == {"r1", "r2"}
UuidPool == <<"g1", "g2", "g3">>

GeneratedIds == {UuidPool[i] : i \in 1..nUuid}
KnownSessionIds == SessionIds \cup GeneratedIds

MutableFields ==
    {"title", "jobTitle", "companyName", "mode", "scheduledAt", "durationMinutes"}

\* if (x): an absent value and the empty string are falsy
Truthy(x) == x # None /\ x # Some("")

Idle ==
    [op |-> "none", user |-> NoUser, in |-> None, pc |-> "idle", ts |-> 0,
     loc |-> {}, outcome |-> "none", ret |-> <<>>]

\* new Date(): not earlier than any time read before
Now == {t \in {clock, clock + 1} : t <= MaxTime}

\* a slot can take a new request
Free(k) == calls[k].pc \in {"idle", "done"} /\ budget > 0

\* the handler is suspended at the await of statement pc
Await(op, u, in, pc, ts, loc) ==
    [op |-> op, user |-> u, in |-> in, pc |-> pc, ts |-> ts,
     loc |-> loc, outcome |-> "pending", ret |-> <<>>]

\* the handler has returned ret (outcome "ok") or thrown
Done(op, u, in, outcome, ret) ==
    [op |-> op, user |-> u, in |-> in, pc |-> "done", ts |-> 0,
     loc |-> {}, outcome |-> outcome, ret |-> ret]

Finished(c, outcome, ret) == Done(c.op, c.user, c.in, outcome, ret)

\* const [row] = await ...: the first row, or undefined
First(seq) == IF seq = <<>> THEN <<>> ELSE <<seq[1]>>

Rows(seq) == {seq[i] : i \in 1..Len(seq)}

-----------------------------------------------------------------------------
(* Schema *)

SessionRow(id, u, in, created, updated) ==
    [id |-> id, userId |-> u, title |-> in.title, jobTitle |-> in.jobTitle,
     companyName |-> in.companyName, mode |-> in.mode,
     scheduledAt |-> in.scheduledAt, durationMinutes |-> in.durationMinutes,
     createdAt |-> created, updatedAt |-> updated]

QuestionRow(id, v) ==
    [id |-> id, sessionId |-> v.sessionId, orderIndex |-> v.orderIndex,
     question |-> v.question, idealAnswer |-> v.idealAnswer,
     createdAt |-> v.createdAt]

ResponseRow(id, v) ==
    [id |-> id, sessionId |-> v.sessionId, questionId |-> v.questionId,
     answer |-> v.answer, score |-> v.score, feedback |-> v.feedback,
     createdAt |-> v.createdAt]

\* the settings a statement may find when `matters` says its result depends
\* on the setting
Setting(current, matters) ==
    IF matters /\ current = "unknown" THEN {"on", "off"} ELSE {current}

\* references: () => InterviewSessions.columns.id / InterviewQuestions.columns.id
SessionExists(sid) == \E s \in Rows(sessions) : s.id = sid
QuestionExists(qid) == \E q \in Rows(questions) : q.id = Some(qid)
SessionReferenced(sid) ==
    \/ \E q \in Rows(questions) : q.sessionId = sid
    \/ \E r \in Rows(responses) : r.sessionId = sid
QuestionReferenced(qid) ==
    qid # None /\ \E r \in Rows(responses) : Some(r.questionId) = qid

-----------------------------------------------------------------------------
(* Inputs, as the zod schemas let them through *)

FieldsMin ==
    [title |-> "T1", jobTitle |-> None, companyName |-> None, mode |-> None,
     scheduledAt |-> None, durationMinutes |-> None]

FieldsFull ==
    [title |-> "T1", jobTitle |-> Some("J1"), companyName |-> Some("C1"),
     mode |-> Some("M1"), scheduledAt |-> Some(1), durationMinutes |-> Some(30)]

CreateSessionInputs ==
    {[id |-> i] @@ f : i \in {None} \cup {Some(s) : s \in SessionIds},
                       f \in {FieldsMin}}

NewValue ==
    [title |-> "T2", jobTitle |-> "J2", companyName |-> "C2", mode |-> "M2",
     scheduledAt |-> 2, durationMinutes |-> 45]

\* no field, one field, or every field
PatchFieldSets ==
    {{}, MutableFields} \cup {{f} : f \in MutableFields}

PatchFor(S) == [f \in MutableFields |-> IF f \in S THEN Some(NewValue[f]) ELSE None]

UpdateSessionInputs ==
    {[id |-> i] @@ PatchFor(S) : i \in KnownSessionIds, S \in PatchFieldSets}

DeleteSessionInputs == {[id |-> i] : i \in KnownSessionIds}

QuestionContents ==
    {[orderIndex |-> 2, question |-> "Q2", idealAnswer |-> None]}

SaveQuestionInputs ==
    {[id |-> i, sessionId |-> s] @@ c :
        i \in {None} \cup {Some(q) : q \in QuestionIds},
        s \in KnownSessionIds, c \in QuestionContents}

DeleteQuestionInputs ==
    {[id |-> q, sessionId |-> s] : q \in QuestionIds, s \in KnownSessionIds}

ResponseContents ==
    {[answer |-> "A2", score |-> Some(7), feedback |-> None]}

SaveResponseInputs ==
    {[id |-> i, sessionId |-> s, questionId |-> q] @@ c :
        i \in {None} \cup {Some(r) : r \in ResponseIds},
        s \in KnownSessionIds, q \in QuestionIds, c \in ResponseContents}

\* an absent input object is the object with both filters absent
ListResponsesInputs ==
    {[sessionId |-> s, questionId |-> q] :
        s \in {None} \cup {Some(x) : x \in KnownSessionIds},
        q \in {None} \cup {Some(x) : x \in QuestionIds}}

-----------------------------------------------------------------------------
(* Session actions *)

\* the where clause without its user scope
SessionOwnedBy_IdOnly(s, id, u) == s.id = id

\* and(eq(InterviewSessions.id, id), eq(InterviewSessions.userId, user.id))
SessionOwnedBy(s, id, u) == s.id = id /\ s.userId = u

OwnedSession(id, u) == SelectSeq(sessions, LAMBDA s : SessionOwnedBy(s, id, u))

\* the loop without its typeof value !== "undefined" test
UpdateData_AllKeys(in) == MutableFields

\* the keys of rest whose value is not undefined
UpdateData(in) == {f \in MutableFields : in[f] # None}

\* .set({...rest, updatedAt: new Date()}) with absent fields written as NULL
ApplyPatch_NullsAbsent(s, in, ts) ==
    [s EXCEPT !.title = IF in.title # None THEN in.title[1] ELSE @,
              !.jobTitle = in.jobTitle,
              !.companyName = in.companyName,
              !.mode = in.mode,
              !.scheduledAt = in.scheduledAt,
              !.durationMinutes = in.durationMinutes,
              !.updatedAt = ts]

\* .set({...updateData, updatedAt: new Date()})
ApplyPatch(s, in, ts) ==
    [s EXCEPT !.title = IF in.title # None THEN in.title[1] ELSE @,
              !.jobTitle = IF in.jobTitle # None THEN in.jobTitle ELSE @,
              !.companyName = IF in.companyName # None THEN in.companyName ELSE @,
              !.mode = IF in.mode # None THEN in.mode ELSE @,
              !.scheduledAt = IF in.scheduledAt # None THEN in.scheduledAt ELSE @,
              !.durationMinutes =
                  IF in.durationMinutes # None THEN in.durationMinutes ELSE @,
              !.updatedAt = ts]

CreateSession(k) ==
    /\ Free(k)
    /\ \E u \in Callers, in \in CreateSessionInputs, now \in Now :
        LET gen == in.id = None
            id == IF gen THEN UuidPool[nUuid + 1] ELSE in.id[1]
            row == SessionRow(id, u, in, now, now)
        IN  IF u = NoUser
            THEN /\ calls' = [calls EXCEPT
                        ![k] = Done("createSession", u, None, "UNAUTHORIZED", <<>>)]
                 /\ UNCHANGED <<sessions, nUuid, createdBy, clock>>
            ELSE /\ gen => nUuid < MaxUuids
                 /\ clock' = now
                 /\ nUuid' = IF gen THEN nUuid + 1 ELSE nUuid
                 /\ IF SessionExists(id)
                    THEN \* primary key violated
                         /\ calls' = [calls EXCEPT ![k] =
                                Done("createSession", u, in, "INTERNAL_SERVER_ERROR", <<>>)]
                         /\ UNCHANGED <<sessions, createdBy>>
                    ELSE /\ sessions' = Append(sessions, row)
                         /\ createdBy' = createdBy \cup {<<id, u>>}
                         /\ calls' = [calls EXCEPT ![k] =
                                Done("createSession", u, in, "ok", <<row>>)]
    /\ budget' = budget - 1
    /\ UNCHANGED <<questions, responses, fkEnforced, pkNotNull, writtenBy>>

UpdateSessionSelect(k) ==
    /\ Free(k)
    /\ \E u \in Callers, in \in UpdateSessionInputs, now \in Now :
        LET existing == First(OwnedSession(in.id, u))
        IN  IF u = NoUser \/ existing = <<>> \/ UpdateData(in) = {}
            THEN /\ calls' = [calls EXCEPT ![k] =
                        IF u = NoUser
                        THEN Done("updateSession", u, None, "UNAUTHORIZED", <<>>)
                        ELSE IF existing = <<>>
                        THEN Done("updateSession", u, in, "NOT_FOUND", <<>>)
                        ELSE Done("updateSession", u, in, "ok", existing)]
                 /\ UNCHANGED clock
            ELSE /\ calls' = [calls EXCEPT ![k] =
                        Await("updateSession", u, in, "updateSession:update", now, {})]
                 /\ clock' = now
    /\ budget' = budget - 1
    /\ UNCHANGED <<db, nUuid, fkEnforced, pkNotNull, createdBy, writtenBy>>

UpdateSessionUpdate(k) ==
    /\ calls[k].pc = "updateSession:update"
    /\ LET c == calls[k]
           Match(s) == SessionOwnedBy(s, c.in.id, c.user)
           New(s) == ApplyPatch(s, c.in, c.ts)
       IN  /\ sessions' = [i \in 1..Len(sessions) |->
                       IF Match(sessions[i]) THEN New(sessions[i]) ELSE sessions[i]]
           /\ calls' = [calls EXCEPT ![k] =
                  Finished(c, "ok", First(SelectSeq(sessions', Match)))]
    /\ UNCHANGED <<questions, responses, clock, nUuid, fkEnforced, pkNotNull,
                   budget, createdBy, writtenBy>>

\* the select without its where clause
ListSessionsWhere_All(s, u) == TRUE

\* eq(InterviewSessions.userId, user.id)
ListSessionsWhere(s, u) == s.userId = u

ListSessions(k) ==
    /\ Free(k)
    /\ \E u \in Callers :
        calls' = [calls EXCEPT ![k] =
            IF u = NoUser THEN Done("listSessions", u, None, "UNAUTHORIZED", <<>>)
            ELSE Done("listSessions", u, None, "ok",
                      SelectSeq(sessions, LAMBDA s : ListSessionsWhere(s, u)))]
    /\ budget' = budget - 1
    /\ UNCHANGED <<db, clock, nUuid, fkEnforced, pkNotNull, createdBy, writtenBy>>

DeleteSession(k) ==
    /\ Free(k)
    /\ \E u \in Callers, in \in DeleteSessionInputs :
        LET deleted == OwnedSession(in.id, u)
        IN  IF u = NoUser
            THEN /\ calls' = [calls EXCEPT
                        ![k] = Done("deleteSession", u, None, "UNAUTHORIZED", <<>>)]
                 /\ UNCHANGED <<sessions, createdBy, fkEnforced>>
            ELSE IF deleted = <<>>
            THEN /\ calls' = [calls EXCEPT
                        ![k] = Done("deleteSession", u, in, "NOT_FOUND", <<>>)]
                 /\ UNCHANGED <<sessions, createdBy, fkEnforced>>
            ELSE \E fk \in Setting(fkEnforced, SessionReferenced(in.id)) :
                 /\ fkEnforced' = fk
                 /\ IF fk = "on" /\ SessionReferenced(in.id)
                    THEN \* a question or response still references the row
                         /\ calls' = [calls EXCEPT ![k] =
                                Done("deleteSession", u, in, "INTERNAL_SERVER_ERROR", <<>>)]
                         /\ UNCHANGED <<sessions, createdBy>>
                    ELSE /\ sessions' = SelectSeq(sessions,
                                          LAMBDA s : ~SessionOwnedBy(s, in.id, u))
                         /\ createdBy' = {p \in createdBy : p[1] # in.id}
                         /\ calls' = [calls EXCEPT ![k] =
                                Done("deleteSession", u, in, "ok", First(deleted))]
    /\ budget' = budget - 1
    /\ UNCHANGED <<questions, responses, clock, nUuid, pkNotNull, writtenBy>>

-----------------------------------------------------------------------------
(* Question actions *)

\* the guard without its session comparison
TamperGuardFails_MissingOnly(existing, in) == existing = <<>>

\* if (!existing || existing.sessionId !== input.sessionId) throw NOT_FOUND
TamperGuardFails(existing, in) ==
    existing = <<>> \/ existing[1].sessionId # in.sessionId

\* .set(baseValues): a key whose value is undefined is left out of the SET
SetQuestion(q, in, ts) ==
    [q EXCEPT !.sessionId = in.sessionId,
              !.orderIndex = in.orderIndex,
              !.question = in.question,
              !.idealAnswer = IF in.idealAnswer # None THEN in.idealAnswer ELSE @,
              !.createdAt = ts]

SaveQuestionSelectSession(k) ==
    /\ Free(k)
    /\ \E u \in Callers, in \in SaveQuestionInputs, now \in Now :
        IF u = NoUser \/ OwnedSession(in.sessionId, u) = <<>>
        THEN /\ calls' = [calls EXCEPT ![k] =
                    IF u = NoUser
                    THEN Done("saveQuestion", u, None, "UNAUTHORIZED", <<>>)
                    ELSE Done("saveQuestion", u, in, "NOT_FOUND", <<>>)]
             /\ UNCHANGED clock
        ELSE /\ calls' = [calls EXCEPT ![k] =
                    IF Truthy(in.id)
                    THEN Await("saveQuestion", u, in, "saveQuestion:existing", now, {})
                    ELSE Await("saveQuestion", u, in, "saveQuestion:insert", now, {})]
             /\ clock' = now
    /\ budget' = budget - 1
    /\ UNCHANGED <<db, nUuid, fkEnforced, pkNotNull, createdBy, writtenBy>>

SaveQuestionSelectExisting(k) ==
    /\ calls[k].pc = "saveQuestion:existing"
    /\ LET c == calls[k]
           existing == First(SelectSeq(questions, LAMBDA q : q.id = c.in.id))
       IN  calls' = [calls EXCEPT ![k] =
               IF TamperGuardFails(existing, c.in)
               THEN Finished(c, "NOT_FOUND", <<>>)
               ELSE [c EXCEPT !.pc = "saveQuestion:update"]]
    /\ UNCHANGED <<db, clock, nUuid, fkEnforced, pkNotNull, budget, createdBy, writtenBy>>

SaveQuestionUpdate(k) ==
    /\ calls[k].pc = "saveQuestion:update"
    /\ LET c == calls[k]
           Match(q) == q.id = c.in.id
           New(q) == SetQuestion(q, c.in, c.ts)
           matched == SelectSeq(questions, Match)
           dangling == matched # <<>> /\ ~SessionExists(c.in.sessionId)
       IN  \E fk \in Setting(fkEnforced, dangling) :
           /\ fkEnforced' = fk
           /\ IF fk = "on" /\ dangling
              THEN /\ calls' = [calls EXCEPT
                          ![k] = Finished(c, "INTERNAL_SERVER_ERROR", <<>>)]
                   /\ UNCHANGED questions
              ELSE /\ questions' = [i \in 1..Len(questions) |->
                          IF Match(questions[i]) THEN New(questions[i]) ELSE questions[i]]
                   /\ calls' = [calls EXCEPT ![k] =
                          Finished(c, "ok", First(SelectSeq(questions', Match)))]
    /\ UNCHANGED <<sessions, responses, clock, nUuid, pkNotNull,
                   budget, createdBy, writtenBy>>

\* db.insert(InterviewQuestions).values(baseValues): baseValues holds no id
SaveQuestionInsert(k) ==
    /\ calls[k].pc = "saveQuestion:insert"
    /\ LET c == calls[k]
           row == QuestionRow(None, c.in @@ [createdAt |-> c.ts])
           dangling == ~SessionExists(c.in.sessionId)
       IN  \E pk \in Setting(pkNotNull, TRUE), fk \in Setting(fkEnforced, dangling) :
           /\ pkNotNull' = pk
           /\ fkEnforced' = fk
           /\ IF pk = "on" \/ (fk = "on" /\ dangling)
              THEN /\ calls' = [calls EXCEPT
                          ![k] = Finished(c, "INTERNAL_SERVER_ERROR", <<>>)]
                   /\ UNCHANGED questions
              ELSE /\ questions' = Append(questions, row)
                   /\ calls' = [calls EXCEPT ![k] = Finished(c, "ok", <<row>>)]
    /\ UNCHANGED <<sessions, responses, clock, nUuid, budget, createdBy, writtenBy>>

DeleteQuestionSelectSession(k) ==
    /\ Free(k)
    /\ \E u \in Callers, in \in DeleteQuestionInputs :
        calls' = [calls EXCEPT ![k] =
            IF u = NoUser THEN Done("deleteQuestion", u, None, "UNAUTHORIZED", <<>>)
            ELSE IF OwnedSession(in.sessionId, u) = <<>>
            THEN Done("deleteQuestion", u, in, "NOT_FOUND", <<>>)
            ELSE Await("deleteQuestion", u, in, "deleteQuestion:delete", 0, {})]
    /\ budget' = budget - 1
    /\ UNCHANGED <<db, clock, nUuid, fkEnforced, pkNotNull, createdBy, writtenBy>>

\* and(eq(InterviewQuestions.id, id), eq(InterviewQuestions.sessionId, sessionId))
QuestionInSession(q, id, sid) == q.id = Some(id) /\ q.sessionId = sid

DeleteQuestionDelete(k) ==
    /\ calls[k].pc = "deleteQuestion:delete"
    /\ LET c == calls[k]
           Match(q) == QuestionInSession(q, c.in.id, c.in.sessionId)
           deleted == SelectSeq(questions, Match)
           referenced == deleted # <<>> /\ QuestionReferenced(Some(c.in.id))
       IN  \E fk \in Setting(fkEnforced, referenced) :
           /\ fkEnforced' = fk
           /\ IF deleted = <<>>
              THEN /\ calls' = [calls EXCEPT ![k] = Finished(c, "NOT_FOUND", <<>>)]
                   /\ UNCHANGED questions
              ELSE IF fk = "on" /\ referenced
              THEN \* a response still references the row
                   /\ calls' = [calls EXCEPT
                          ![k] = Finished(c, "INTERNAL_SERVER_ERROR", <<>>)]
                   /\ UNCHANGED questions
              ELSE /\ questions' = SelectSeq(questions, LAMBDA q : ~Match(q))
                   /\ calls' = [calls EXCEPT ![k] = Finished(c, "ok", First(deleted))]
    /\ UNCHANGED <<sessions, responses, clock, nUuid, pkNotNull,
                   budget, createdBy, writtenBy>>

-----------------------------------------------------------------------------
(* Response actions *)

\* .set(baseValues): a key whose value is undefined is left out of the SET
SetResponse(r, in, ts) ==
    [r EXCEPT !.sessionId = in.sessionId,
              !.questionId = in.questionId,
              !.answer = in.answer,
              !.score = IF in.score # None THEN in.score ELSE @,
              !.feedback = IF in.feedback # None THEN in.feedback ELSE @,
              !.createdAt = ts]

SaveResponseSelectSession(k) ==
    /\ Free(k)
    /\ \E u \in Callers, in \in SaveResponseInputs :
        calls' = [calls EXCEPT ![k] =
            IF u = NoUser THEN Done("saveResponse", u, None, "UNAUTHORIZED", <<>>)
            ELSE IF OwnedSession(in.sessionId, u) = <<>>
            THEN Done("saveResponse", u, in, "NOT_FOUND", <<>>)
            ELSE Await("saveResponse", u, in, "saveResponse:question", 0, {})]
    /\ budget' = budget - 1
    /\ UNCHANGED <<db, clock, nUuid, fkEnforced, pkNotNull, createdBy, writtenBy>>

SaveResponseSelectQuestion(k) ==
    /\ calls[k].pc = "saveResponse:question"
    /\ LET c == calls[k]
           question == First(SelectSeq(questions,
               LAMBDA q : QuestionInSession(q, c.in.questionId, c.in.sessionId)))
       IN  IF question = <<>>
           THEN /\ calls' = [calls EXCEPT ![k] = Finished(c, "NOT_FOUND", <<>>)]
                /\ UNCHANGED clock
           ELSE \E now \in Now :
                /\ calls' = [calls EXCEPT ![k] =
                       IF Truthy(c.in.id)
                       THEN [c EXCEPT !.pc = "saveResponse:existing", !.ts = now]
                       ELSE [c EXCEPT !.pc = "saveResponse:insert", !.ts = now]]
                /\ clock' = now
    /\ UNCHANGED <<db, nUuid, fkEnforced, pkNotNull, budget, createdBy, writtenBy>>

SaveResponseSelectExisting(k) ==
    /\ calls[k].pc = "saveResponse:existing"
    /\ LET c == calls[k]
           existing == First(SelectSeq(responses, LAMBDA r : r.id = c.in.id))
       IN  calls' = [calls EXCEPT ![k] =
               IF TamperGuardFails(existing, c.in)
               THEN Finished(c, "NOT_FOUND", <<>>)
               ELSE [c EXCEPT !.pc = "saveResponse:update"]]
    /\ UNCHANGED <<db, clock, nUuid, fkEnforced, pkNotNull, budget, createdBy, writtenBy>>

\* the references of a response row to be written
ResponseReferencesHold(in) == SessionExists(in.sessionId) /\ QuestionExists(in.questionId)

SaveResponseUpdate(k) ==
    /\ calls[k].pc = "saveResponse:update"
    /\ LET c == calls[k]
           Match(r) == r.id = c.in.id
           New(r) == SetResponse(r, c.in, c.ts)
           matched == SelectSeq(responses, Match)
           dangling == matched # <<>> /\ ~ResponseReferencesHold(c.in)
       IN  \E fk \in Setting(fkEnforced, dangling) :
           /\ fkEnforced' = fk
           /\ IF fk = "on" /\ dangling
              THEN /\ calls' = [calls EXCEPT
                          ![k] = Finished(c, "INTERNAL_SERVER_ERROR", <<>>)]
                   /\ UNCHANGED <<responses, writtenBy>>
              ELSE /\ responses' = [i \in 1..Len(responses) |->
                          IF Match(responses[i]) THEN New(responses[i]) ELSE responses[i]]
                   /\ writtenBy' = [i \in 1..Len(responses) |->
                          IF Match(responses[i]) THEN c.user ELSE writtenBy[i]]
                   /\ calls' = [calls EXCEPT ![k] =
                          Finished(c, "ok", First(SelectSeq(responses', Match)))]
    /\ UNCHANGED <<sessions, questions, clock, nUuid, pkNotNull, budget, createdBy>>

\* db.insert(InterviewResponses).values(baseValues): baseValues holds no id
SaveResponseInsert(k) ==
    /\ calls[k].pc = "saveResponse:insert"
    /\ LET c == calls[k]
           row == ResponseRow(None, c.in @@ [createdAt |-> c.ts])
           dangling == ~ResponseReferencesHold(c.in)
       IN  \E pk \in Setting(pkNotNull, TRUE), fk \in Setting(fkEnforced, dangling) :
           /\ pkNotNull' = pk
           /\ fkEnforced' = fk
           /\ IF pk = "on" \/ (fk = "on" /\ dangling)
              THEN /\ calls' = [calls EXCEPT
                          ![k] = Finished(c, "INTERNAL_SERVER_ERROR", <<>>)]
                   /\ UNCHANGED <<responses, writtenBy>>
              ELSE /\ responses' = Append(responses, row)
                   /\ writtenBy' = Append(writtenBy, c.user)
                   /\ calls' = [calls EXCEPT ![k] = Finished(c, "ok", <<row>>)]
    /\ UNCHANGED <<sessions, questions, clock, nUuid, budget, createdBy>>

\* new Set(sessions.map((s) => s.id)) over the caller's sessions
AllowedSessionIds(u) == {s.id : s \in {x \in Rows(sessions) : x.userId = u}}

\* the filter without matchesSession
ResponseVisible_NoOwnerCheck(r, allowed, in) ==
    /\ Truthy(in.sessionId) => Some(r.sessionId) = in.sessionId
    /\ Truthy(in.questionId) => Some(r.questionId) = in.questionId

\* the predicate of responses.filter
ResponseVisible(r, allowed, in) ==
    LET matchesSession == r.sessionId \in allowed
        matchesRequestedSession ==
            IF Truthy(in.sessionId) THEN Some(r.sessionId) = in.sessionId ELSE TRUE
        matchesQuestion ==
            IF Truthy(in.questionId) THEN Some(r.questionId) = in.questionId ELSE TRUE
    IN  matchesSession /\ matchesRequestedSession /\ matchesQuestion

ListResponsesSelectSessions(k) ==
    /\ Free(k)
    /\ \E u \in Callers, in \in ListResponsesInputs :
        LET allowed == AllowedSessionIds(u)
        IN  calls' = [calls EXCEPT ![k] =
                IF u = NoUser THEN Done("listResponses", u, None, "UNAUTHORIZED", <<>>)
                ELSE IF Truthy(in.sessionId) /\ in.sessionId[1] \notin allowed
                THEN Done("listResponses", u, in, "NOT_FOUND", <<>>)
                ELSE Await("listResponses", u, in, "listResponses:responses", 0, allowed)]
    /\ budget' = budget - 1
    /\ UNCHANGED <<db, clock, nUuid, fkEnforced, pkNotNull, createdBy, writtenBy>>

ListResponsesSelectResponses(k) ==
    /\ calls[k].pc = "listResponses:responses"
    /\ LET c == calls[k]
       IN  calls' = [calls EXCEPT ![k] = Finished(c, "ok",
               SelectSeq(responses, LAMBDA r : ResponseVisible(r, c.loc, c.in)))]
    /\ UNCHANGED <<db, clock, nUuid, fkEnforced, pkNotNull, budget, createdBy, writtenBy>>

-----------------------------------------------------------------------------
(* Initial contents of the tables *)

SeedSession(id, u) == SessionRow(id, u, FieldsFull, 0, 0)

SeedQuestion(id, sid) ==
    QuestionRow(Some(id), [sessionId |-> sid, orderIndex |-> 1, question |-> "Q1",
                           idealAnswer |-> Some("I1"), createdAt |-> 0])

SeedResponse(id, sid, qid) ==
    ResponseRow(Some(id), [sessionId |-> sid, questionId |-> qid, answer |-> "A1",
                           score |-> Some(5), feedback |-> Some("F1"), createdAt |-> 0])

\* two sessions, one question and one response each; o1 and o2 own them
Seeded(o1, o2) ==
    [sessions |-> <<SeedSession("s1", o1), SeedSession("s2", o2)>>,
     questions |-> <<SeedQuestion("q1", "s1"), SeedQuestion("q2", "s2")>>,
     responses |-> <<SeedResponse("r1", "s1", "q1"), SeedResponse("r2", "s2", "q2")>>,
     createdBy |-> {<<"s1", o1>>, <<"s2", o2>>},
     writtenBy |-> <<o1, o2>>]

Empty ==
    [sessions |-> <<>>, questions |-> <<>>, responses |-> <<>>,
     createdBy |-> {}, writtenBy |-> <<>>]

Seeds == {Empty, Seeded("A", "A"), Seeded("A", "B")}

InitDb ==
    /\ \E seed \in Seeds :
        /\ sessions = seed.sessions
        /\ questions = seed.questions
        /\ responses = seed.responses
        /\ createdBy = seed.createdBy
        /\ writtenBy = seed.writtenBy
    /\ clock = 0
    /\ nUuid = 0
    /\ fkEnforced = "unknown"
    /\ pkNotNull = "unknown"

\* requests are handled one at a time
Init ==
    /\ InitDb
    /\ calls = [k \in {1} |-> Idle]
    /\ budget = MaxCalls

\* requests are handled one at a time, in longer runs
InitLong ==
    /\ InitDb
    /\ calls = [k \in {1} |-> Idle]
    /\ budget = MaxLongCalls

\* up to MaxInFlight requests are in flight together
InitConc ==
    /\ InitDb
    /\ calls = [k \in 1..MaxInFlight |-> Idle]
    /\ budget = MaxConcCalls

Next ==
    \/ \E k \in DOMAIN calls : CreateSession(k)
    \/ \E k \in DOMAIN calls : UpdateSessionSelect(k)
    \/ \E k \in DOMAIN calls : UpdateSessionUpdate(k)
    \/ \E k \in DOMAIN calls : ListSessions(k)
    \/ \E k \in DOMAIN calls : DeleteSession(k)
    \/ \E k \in DOMAIN calls : SaveQuestionSelectSession(k)
    \/ \E k \in DOMAIN calls : SaveQuestionSelectExisting(k)
    \/ \E k \in DOMAIN calls : SaveQuestionUpdate(k)
    \/ \E k \in DOMAIN calls : SaveQuestionInsert(k)
    \/ \E k \in DOMAIN calls : DeleteQuestionSelectSession(k)
    \/ \E k \in DOMAIN calls : DeleteQuestionDelete(k)
    \/ \E k \in DOMAIN calls : SaveResponseSelectSession(k)
    \/ \E k \in DOMAIN calls : SaveResponseSelectQuestion(k)
    \/ \E k \in DOMAIN calls : SaveResponseSelectExisting(k)
    \/ \E k \in DOMAIN calls : SaveResponseUpdate(k)
    \/ \E k \in DOMAIN calls : SaveResponseInsert(k)
    \/ \E k \in DOMAIN calls : ListResponsesSelectSessions(k)
    \/ \E k \in DOMAIN calls : ListResponsesSelectResponses(k)

Spec == Init /\ [][Next]_vars

SpecLong == InitLong /\ [][Next]_vars

SpecConc == InitConc /\ [][Next]_vars

-----------------------------------------------------------------------------
(* Vocabulary of the properties *)

Authenticated(c) == c.user \in Users /\ c.outcome # "UNAUTHORIZED"

\* slot k takes a step of handler op
Steps(k, op) == calls'[k] # calls[k] /\ calls'[k].op = op

\* slot k holds a finished call of handler op by a signed-in user
Returned(k, op) ==
    calls[k].pc = "done" /\ calls[k].op = op /\ Authenticated(calls[k])

Owns(u, sid) == \E s \in Rows(sessions) : s.id = sid /\ s.userId = u

OwnedByAnother(u, sid) == \E s \in Rows(sessions) : s.id = sid /\ s.userId # u

-----------------------------------------------------------------------------
(* C1 *)

-----------------------------------------------------------------------------
(* C2 *)

\* the id a call targets does not exist, or belongs to a session of another user
TargetMissing(c) ==
    IF c.op = "deleteQuestion"
    THEN \A q \in Rows(questions) :
            q.id = Some(c.in.id) => OwnedByAnother(c.user, q.sessionId)
    ELSE \A s \in Rows(sessions) : s.id = c.in.id => s.userId # c.user

\* C2: a step of updateSession, deleteSession or deleteQuestion by a signed-in
\* user whose target id does not exist or is another user's changes no stored
\* row, and the call ends with NOT_FOUND.
C2_MissingTargetIsNotFound ==
    [][\A k \in DOMAIN calls :
        ( /\ \/ Steps(k, "updateSession")
             \/ Steps(k, "deleteSession")
             \/ Steps(k, "deleteQuestion")
          /\ Authenticated(calls'[k])
          /\ TargetMissing(calls'[k]) )
        => /\ db' = db
           /\ calls'[k].pc = "done" => calls'[k].outcome = "NOT_FOUND"
           /\ calls'[k].op # "deleteQuestion" => calls'[k].pc = "done"]_vars

\* deleteQuestion has ended with NOT_FOUND on a stored question of another
\* user's session
C2_Witness ==
    \E k \in DOMAIN calls :
        /\ Returned(k, "deleteQuestion")
        /\ calls[k].outcome = "NOT_FOUND"
        /\ \E q \in Rows(questions) :
              q.id = Some(calls[k].in.id) /\ OwnedByAnother(calls[k].user, q.sessionId)

-----------------------------------------------------------------------------
(* C3 *)

\* an entity the input names by id is stored under another session than
\* input.sessionId
Tampered(c) ==
    \/ /\ c.op = "saveQuestion"
       /\ Truthy(c.in.id)
       /\ \E q \in Rows(questions) : q.id = c.in.id /\ q.sessionId # c.in.sessionId
    \/ /\ c.op = "saveResponse"
       /\ \/ \E q \in Rows(questions) :
                q.id = Some(c.in.questionId) /\ q.sessionId # c.in.sessionId
          \/ /\ Truthy(c.in.id)
             /\ \E r \in Rows(responses) :
                   r.id = c.in.id /\ r.sessionId # c.in.sessionId

\* C3: a step of saveQuestion or saveResponse by the owner of input.sessionId,
\* with an entity named by id stored under another session, inserts and
\* modifies no question and no response, and the call ends with NOT_FOUND.
C3_TamperGuard ==
    [][\A k \in DOMAIN calls :
        ( /\ Steps(k, "saveQuestion") \/ Steps(k, "saveResponse")
          /\ Authenticated(calls'[k])
          /\ Owns(calls'[k].user, calls'[k].in.sessionId)
          /\ Tampered(calls'[k]) )
        => /\ questions' = questions
           /\ responses' = responses
           /\ calls'[k].pc = "done" => calls'[k].outcome = "NOT_FOUND"]_vars

\* saveQuestion by the owner of two sessions has ended with NOT_FOUND on a
\* stored question of the other session
C3_Witness ==
    \E k \in DOMAIN calls :
        /\ Returned(k, "saveQuestion")
        /\ calls[k].outcome = "NOT_FOUND"
        /\ Owns(calls[k].user, calls[k].in.sessionId)
        /\ Tampered(calls[k])

-----------------------------------------------------------------------------
(* C4 *)

RacingOps == {"updateSession", "saveQuestion", "saveResponse", "deleteQuestion"}

\* C4: a check-then-act action whose mutation finds its row gone surfaces
\* NOT_FOUND: it never returns a success result that carries no row.
C4_NoEmptySuccess ==
    \A k \in DOMAIN calls :
        \A op \in RacingOps :
            (Returned(k, op) /\ calls[k].outcome = "ok") => calls[k].ret # <<>>

-----------------------------------------------------------------------------
(* C5 *)

\* C5: saveQuestion without an id on a session of the caller inserts one row
\* and returns it, createdAt set, with an id that is defined and that no other
\* stored question has.
C5_InsertReturnsNewId ==
    \A k \in DOMAIN calls :
        ( /\ Returned(k, "saveQuestion")
          /\ calls[k].in.id = None
          /\ Owns(calls[k].user, calls[k].in.sessionId) )
        => /\ calls[k].outcome = "ok"
           /\ calls[k].ret # <<>>
           /\ calls[k].ret[1].id # None
           /\ calls[k].ret[1].createdAt \in 0..MaxTime
           /\ Cardinality({i \in 1..Len(questions) :
                             questions[i].id = calls[k].ret[1].id}) = 1

-----------------------------------------------------------------------------
(* C6 *)

\* C6: listSessions returns to user U exactly the stored rows of the sessions
\* that U created and that were not deleted since: all of them, and no
\* session that another user created.
C6_ListSessionsIsCreatedByCaller ==
    \A k \in DOMAIN calls :
        (Returned(k, "listSessions") /\ calls[k].outcome = "ok") =>
            /\ {r.id : r \in Rows(calls[k].ret)}
                  = {p[1] : p \in {x \in createdBy : x[2] = calls[k].user}}
            /\ Rows(calls[k].ret) \subseteq Rows(sessions)

\* listSessions has returned a session to its creator while a session that
\* another user created is stored
C6_Witness ==
    \E k \in DOMAIN calls :
        /\ Returned(k, "listSessions")
        /\ calls[k].ret # <<>>
        /\ \E p \in createdBy : p[2] # calls[k].user

-----------------------------------------------------------------------------
(* C7 *)

NoFieldProvided(in) == \A f \in MutableFields : in[f] = None

\* C7: updateSession by the owner with no mutable field provided writes
\* nothing: every stored row, updatedAt included, is as before, and the call
\* returns the stored row at once.
C7_EmptyPatchWritesNothing ==
    [][\A k \in DOMAIN calls :
        ( /\ Steps(k, "updateSession")
          /\ Authenticated(calls'[k])
          /\ Owns(calls'[k].user, calls'[k].in.id)
          /\ NoFieldProvided(calls'[k].in) )
        => /\ db' = db
           /\ calls'[k].pc = "done"
           /\ calls'[k].outcome = "ok"
           /\ calls'[k].ret = SelectSeq(sessions', LAMBDA s : s.id = calls'[k].in.id)
           /\ Len(calls'[k].ret) = 1]_vars

\* updateSession with only an id has returned the session to its owner
C7_Witness ==
    \E k \in DOMAIN calls :
        /\ Returned(k, "updateSession")
        /\ calls[k].outcome = "ok"
        /\ NoFieldProvided(calls[k].in)
        /\ calls[k].ret # <<>>

-----------------------------------------------------------------------------
(* C8 *)

\* the value of column f after a patch: the provided value, else the old one
Patched(row, in, f) ==
    IF in[f] = None THEN row[f]
    ELSE IF f = "title" THEN in[f][1] ELSE in[f]

\* C8: updateSession by the owner with some mutable fields provided goes on to
\* one update; the update sets, on the row of that id, the provided fields and
\* updatedAt, keeps its other columns, changes no other row of any table, and
\* returns the updated row.
C8_SparsePatch ==
    [][\A k \in DOMAIN calls :
        ( /\ Steps(k, "updateSession")
          /\ Authenticated(calls'[k])
          /\ Owns(calls'[k].user, calls'[k].in.id)
          /\ ~NoFieldProvided(calls'[k].in) )
        => LET c == calls'[k]
           IN  /\ questions' = questions
               /\ responses' = responses
               /\ Len(sessions') = Len(sessions)
               /\ IF calls[k].pc = "updateSession:update"
                  THEN /\ c.pc = "done" /\ c.outcome = "ok"
                       /\ \A i \in 1..Len(sessions) :
                             IF sessions[i].id = c.in.id
                             THEN /\ \A f \in MutableFields :
                                       sessions'[i][f] = Patched(sessions[i], c.in, f)
                                  /\ sessions'[i].updatedAt = calls[k].ts
                                  /\ sessions'[i].id = sessions[i].id
                                  /\ sessions'[i].userId = sessions[i].userId
                                  /\ sessions'[i].createdAt = sessions[i].createdAt
                                  /\ c.ret = <<sessions'[i]>>
                             ELSE sessions'[i] = sessions[i]
                  ELSE /\ c.pc = "updateSession:update"
                       /\ sessions' = sessions]_vars

\* updateSession has returned the updated row for a patch of some but not all
\* mutable fields
C8_Witness ==
    \E k \in DOMAIN calls :
        /\ Returned(k, "updateSession")
        /\ calls[k].outcome = "ok"
        /\ UpdateData(calls[k].in) \notin {{}, MutableFields}
        /\ calls[k].ret # <<>>
        /\ calls[k].ret[1].updatedAt > calls[k].ret[1].createdAt

-----------------------------------------------------------------------------
(* C9 *)

-----------------------------------------------------------------------------
(* C10 *)

====

